---- MODULE Spec2Model ----
(***************************************************************************)
(* Model of the wiki fetcher (WikiScraper.py) and the document exporter    *)
(* (convert_wiki.py).                                                      *)
(*                                                                         *)
(* Text is a sequence of one-character strings.  JSON values are records   *)
(* tagged by a "type" field, so that a value of an unexpected shape can be *)
(* told apart from a string before it is used as one.                      *)
(***************************************************************************)
EXTENDS Integers, Sequences, FiniteSets, TLC

VARIABLES
    \* sanitize_filename(title)
    san_pc, san_title, san_filename,
    \* the wiki's listing endpoint, and get_all_page_titles()
    wiki_titles, page_size,
    list_pc, all_titles, continue_token, list_requests, list_responses,
    \* the wiki's content endpoint, and scrape_all_content(output_file)
    run_wiki, run_pc, stopped_at, titles, i, raw_content, scraped_content,
    tmp_file, out_file, tmp_writes, out_writes, content_requests, sleeps,
    \* convert_json_to_documents(json_file, output_dir)
    wiki_data, exp_pc, idx, exp_title, converted_count, skipped_count, files, exported

sanVars == <<san_pc, san_title, san_filename>>
listVars == <<wiki_titles, page_size,
              list_pc, all_titles, continue_token, list_requests, list_responses>>
runVars == <<run_wiki, run_pc, stopped_at, titles, i, raw_content,
             scraped_content, tmp_file, out_file, tmp_writes, out_writes,
             content_requests, sleeps>>
expVars == <<wiki_data, exp_pc, idx, exp_title, converted_count, skipped_count,
             files, exported>>
vars == <<sanVars, listVars, runVars, expVars>>

----------------------------------------------------------------------------
(* Bounds of the model                                                     *)

\* Longest prefix and suffix put around a title given to sanitize_filename.
MaxAffix == 2
\* Most titles of a wiki that is listed, and the largest page the listing
\* endpoint serves.
MaxWikiTitles == 6
MaxPageSize == 3
\* Most titles of a wiki whose every content response is chosen freely.
MaxSmallWiki == 2
\* Most checkpoints of a run, and the largest offset into the cycle of
\* content responses of a wiki large enough for checkpoints.
MaxCheckpoints == 2
MaxOffset == 1
\* Most elements of the JSON array given to the exporter.
MaxArticles == 3

----------------------------------------------------------------------------
(* Text helpers                                                            *)

\* The characters str.strip(), str.split() and the regex class \s treat as
\* whitespace, as far as the alphabets below contain them.
Whitespace == {" ", "\t", "\n"}

MinOf(S) == CHOOSE x \in S : \A y \in S : x <= y
MaxOf(S) == CHOOSE x \in S : \A y \in S : x >= y

\* s.strip(chars): drop the leading and the trailing run of chars.
StripSet(s, chars) ==
    LET keep == {k \in 1..Len(s) : s[k] \notin chars}
    IN  IF keep = {} THEN <<>> ELSE SubSeq(s, MinOf(keep), MaxOf(keep))

\* s.strip()
Strip(s) == StripSet(s, Whitespace)

\* The decimal digits of a natural number, as str(n) prints them.
DigitChars == <<"0", "1", "2", "3", "4", "5", "6", "7", "8", "9">>
RECURSIVE Digits(_)
Digits(n) ==
    IF n < 10 THEN <<DigitChars[n + 1]>>
    ELSE Digits(n \div 10) \o <<DigitChars[(n % 10) + 1]>>

----------------------------------------------------------------------------
(* convert_wiki.py: sanitize_filename                                      *)

IllegalChars == {"<", ">", ":", "\"", "/", "\\", "|", "?", "*"}
FilenameLimit == 200

\* re.sub(r'[<>:"/\\|?*]', '_', title)
ReplaceIllegal(s) ==
    IF s = <<>> THEN <<>>
    ELSE [k \in 1..Len(s) |-> IF s[k] \in IllegalChars THEN "_" ELSE s[k]]

\* re.sub(r'\s+', '_', filename): every maximal run of whitespace becomes one
\* underscore, so only the first character of a run leaves a character behind.
CollapseWhitespace(s) ==
    LET positions == IF s = <<>> THEN <<>> ELSE [k \in 1..Len(s) |-> k]
        first == SelectSeq(positions,
                     LAMBDA k : ~(s[k] \in Whitespace /\ k > 1 /\ s[k - 1] \in Whitespace))
    IN  IF first = <<>> THEN <<>>
        ELSE [j \in 1..Len(first) |->
                 IF s[first[j]] \in Whitespace THEN "_" ELSE s[first[j]]]

\* filename.strip('._')
StripDotsUnderscores(s) == StripSet(s, {".", "_"})

\* if len(filename) > 200: filename = filename[:200]
Truncate(s) == IF Len(s) > FilenameLimit THEN SubSeq(s, 1, FilenameLimit) ELSE s

sanitize_filename(title) ==
    Truncate(StripDotsUnderscores(CollapseWhitespace(ReplaceIllegal(title))))

\* Titles handed to sanitize_filename: a short prefix, a run of plain letters
\* (empty, or long enough to reach the length limit) and a short suffix.
SanAlphabet == {"a", "_", ".", " ", "/"}
Affixes == UNION {[1..k -> SanAlphabet] : k \in 0..MaxAffix}
Fill(n) == [k \in 1..n |-> "a"]
FillLens == {0} \cup ((FilenameLimit - MaxAffix)..FilenameLimit)
SanTitles == {h \o Fill(n) \o t : h \in Affixes, t \in Affixes, n \in FillLens}

SanInit ==
    /\ san_pc = "call"
    /\ san_title \in SanTitles
    /\ san_filename = <<>>

SanIdle ==
    /\ san_pc = "idle"
    /\ san_title = <<>>
    /\ san_filename = <<>>

SanitizeCall ==
    /\ san_pc = "call"
    /\ san_filename' = sanitize_filename(san_title)
    /\ san_pc' = "returned"
    /\ UNCHANGED san_title

----------------------------------------------------------------------------
(* JSON values and the wiki                                                *)

None == [type |-> "null", val |-> <<>>]
Str(s) == [type |-> "str", val |-> s]

\* Python truthiness of a value that is None or a string.
Truthy(v) == v.type = "str" /\ v.val # <<>>

\* The title of the wiki's t-th page in allpages order.
TitleOf(t) == <<"P", " ">> \o Digits(t)

\* The ways a request raises inside the try block: the transport fails
\* (session.get), the status is an HTTP error (raise_for_status), or the body
\* is not JSON (response.json()).
RaisingKinds == {"transport", "http_status", "not_json"}

RECURSIVE Concat(_)
Concat(ss) == IF ss = <<>> THEN <<>> ELSE Head(ss) \o Concat(Tail(ss))

----------------------------------------------------------------------------
(* WikiScraper.py: get_all_page_titles                                     *)

ApLimit == 500
ApNamespace == 0

\* The parameters of one listing request: apcontinue is sent only when the
\* stored token is truthy.
\* (RequestParamsNoToken: the variant that never sends the token.)
RequestParamsNoToken(token) ==
    [action |-> "query", list |-> "allpages", aplimit |-> ApLimit,
     format |-> "json", apnamespace |-> ApNamespace, apcontinue |-> None]
RequestParams(token) ==
    [action |-> "query", list |-> "allpages", aplimit |-> ApLimit,
     format |-> "json", apnamespace |-> ApNamespace,
     apcontinue |-> IF Truthy(token) THEN token ELSE None]

\* The listing endpoint: the page of at most page_size (and at most aplimit)
\* titles that starts at apcontinue, or at the first title when none is sent;
\* the response carries a continuation token, the title the next page starts
\* at, exactly when titles remain.
PositionOf(title) == CHOOSE k \in 1..Len(wiki_titles) : wiki_titles[k] = title
ListingResponse(params) ==
    LET start == IF params.apcontinue = None THEN 1
                 ELSE PositionOf(params.apcontinue.val)
        size  == IF page_size < params.aplimit THEN page_size ELSE params.aplimit
        last  == IF start + size - 1 < Len(wiki_titles)
                 THEN start + size - 1 ELSE Len(wiki_titles)
    IN  [kind |-> "ok",
         titles |-> SubSeq(wiki_titles, start, last),
         cont |-> IF last < Len(wiki_titles) THEN Str(wiki_titles[last + 1]) ELSE None]

\* A request that raises.
FailedResponse(cause) == [kind |-> cause, titles |-> <<>>, cont |-> None]
\* A JSON body with neither 'query' nor 'continue' (the API's error object).
ErrorBody == [kind |-> "noquery", titles |-> <<>>, cont |-> None]

\* Where the loop goes after the except clause: break, and so the return.
\* (AfterListErrorRetry: the variant that goes on to another request.)
AfterListErrorRetry == "sleep"
AfterListError == "returned"

\* Where the loop goes after a decoded response: on to the sleep and the next
\* request when it carries a continuation token, break otherwise.
AfterListResponse(data) == IF data.cont # None THEN "sleep" ELSE "returned"

ListInit ==
    /\ \E n \in 0..MaxWikiTitles : wiki_titles = [t \in 1..n |-> TitleOf(t)]
    /\ page_size \in 1..MaxPageSize
    /\ list_pc = "request"
    /\ all_titles = <<>>
    /\ continue_token = None
    /\ list_requests = <<>>
    /\ list_responses = <<>>

ListIdle ==
    /\ wiki_titles = <<>>
    /\ page_size = 1
    /\ list_pc = "idle"
    /\ all_titles = <<>>
    /\ continue_token = None
    /\ list_requests = <<>>
    /\ list_responses = <<>>

\* One round of the loop whose request is answered with a decoded body.
ListPage ==
    /\ list_pc = "request"
    /\ LET params == RequestParams(continue_token)
           data   == ListingResponse(params)
       IN  /\ list_requests' = Append(list_requests, params)
           /\ list_responses' = Append(list_responses, data)
           /\ all_titles' = all_titles \o data.titles
           /\ continue_token' = IF data.cont # None THEN data.cont ELSE continue_token
           /\ list_pc' = AfterListResponse(data)
    /\ UNCHANGED <<wiki_titles, page_size>>

\* One round of the loop whose body has no 'query' and no 'continue'.
ListErrorBody ==
    /\ list_pc = "request"
    /\ list_requests' = Append(list_requests, RequestParams(continue_token))
    /\ list_responses' = Append(list_responses, ErrorBody)
    /\ list_pc' = AfterListResponse(ErrorBody)
    /\ UNCHANGED <<wiki_titles, page_size, all_titles, continue_token>>

\* One round of the loop whose request raises.
ListFail ==
    /\ list_pc = "request"
    /\ list_requests' = Append(list_requests, RequestParams(continue_token))
    /\ \E cause \in RaisingKinds :
           list_responses' = Append(list_responses, FailedResponse(cause))
    /\ list_pc' = AfterListError
    /\ UNCHANGED <<wiki_titles, page_size, all_titles, continue_token>>

\* time.sleep(self.delay) between two requests.
ListSleep ==
    /\ list_pc = "sleep"
    /\ list_pc' = "request"
    /\ UNCHANGED <<wiki_titles, page_size, all_titles, continue_token,
                   list_requests, list_responses>>

----------------------------------------------------------------------------
(* WikiScraper.py: get_page_content, clean_wikitext                        *)

\* What the content endpoint can answer for a title.
\*   transport, http_status, not_json   the request raises
\*   nopages  a body without query.pages
\*   missing  a page object without 'revisions'
\*   norevs   a page object whose 'revisions' is empty
\*   badslot  a revision without slots.main.* (the lookup raises KeyError)
\*   text     a revision whose slots.main.* is the given markup
NoText(kind) == [kind |-> kind, text |-> <<>>]
Markup(s) == [kind |-> "text", text |-> s]
ContentResponses ==
    << NoText("transport"), Markup(<<" ", "a", " ", "b", "\n">>), NoText("missing"),
       Markup(<<>>), Markup(<<"a">>), NoText("norevs"), NoText("http_status"),
       Markup(<<" ", "\n">>), NoText("nopages"),
       Markup(<<"a", "\t", "\t", "b", " ", "c">>), NoText("badslot"),
       NoText("not_json") >>

\* get_page_content: the markup of the first page that has a revision; None
\* when there is none or when anything raised.
get_page_content(resp) ==
    CASE resp.kind \in RaisingKinds -> None
      [] resp.kind = "nopages" -> None
      [] resp.kind = "missing" -> None
      [] resp.kind = "norevs" -> None
      [] resp.kind = "badslot" -> None
      [] resp.kind = "text" -> Str(resp.text)

\* clean_wikitext: "" for a falsy argument, the stripped text otherwise.
\* (clean_wikitext_unstripped: the variant that returns the text as it is.)
clean_wikitext_unstripped(wikitext) == wikitext.val
clean_wikitext(wikitext) == IF ~Truthy(wikitext) THEN <<>> ELSE Strip(wikitext.val)

\* s.split(): the maximal runs of non-whitespace characters, in order.
RECURSIVE SplitWords(_)
SplitWords(s) ==
    LET t == StripSet(s, Whitespace)
        ws == {k \in 1..Len(t) : t[k] \in Whitespace}
    IN  IF t = <<>> THEN <<>>
        ELSE IF ws = {} THEN <<t>>
        ELSE <<SubSeq(t, 1, MinOf(ws) - 1)>> \o SplitWords(SubSeq(t, MinOf(ws), Len(t)))

base_url == <<"w">>

\* f"{self.base_url}/wiki/{title.replace(' ', '_')}"
UrlOf(title) ==
    base_url \o <<"/", "w", "i", "k", "i", "/">>
             \o [k \in 1..Len(title) |-> IF title[k] = " " THEN "_" ELSE title[k]]

\* The record appended for a title whose cleaned content is not blank.
PageData(title, raw, clean) ==
    [title |-> title, url |-> UrlOf(title), content |-> clean,
     raw_content |-> raw.val, word_count |-> Len(SplitWords(clean))]

\* The body of the loop up to the append: scraped_content after the title.
AppendPage(content, title, raw) ==
    IF Truthy(raw)
    THEN LET clean_content == clean_wikitext(raw)
         IN  IF Strip(clean_content) # <<>>
             THEN Append(content, PageData(title, raw, clean_content))
             ELSE content
    ELSE content

----------------------------------------------------------------------------
(* WikiScraper.py: scrape_all_content, and main's handling of its outcome  *)

CheckpointEvery == 100

\* if (i + 1) % 100 == 0
\* (CheckpointDueEarly: the variant that tests i instead of i + 1.)
CheckpointDueEarly(k) == k % CheckpointEvery = 0
CheckpointDue(k) == (k + 1) % CheckpointEvery = 0

\* The index of the next title: enumerate() advances whatever the fetch gave.
\* (NextIndexRetry: the variant that stays on a title whose fetch gave None.)
NextIndexRetry(k, raw) == IF raw = None THEN k ELSE k + 1
NextIndex(k, raw) == k + 1

\* Where the run goes after the sleep that ends the loop body for index k of n.
\* (AfterSleepNoSave: the variant that leaves the loop for the clean-up.)
AfterSleepNoSave(k, n) == IF k + 1 < n THEN "fetch" ELSE "cleanup"
AfterSleep(k, n) == IF k + 1 < n THEN "fetch" ELSE "save"

\* A file: absent, or present and either opened for writing and not yet
\* (or only partly) written, or holding a complete JSON array.
NoFile == [exists |-> FALSE, complete |-> FALSE, data |-> <<>>]
OpenedFile == [exists |-> TRUE, complete |-> FALSE, data |-> <<>>]
WrittenFile(records) == [exists |-> TRUE, complete |-> TRUE, data |-> records]

\* The wikis of a run.  A small wiki answers each title in any of
\* the ways above; a large one, whose size is around a multiple of the
\* checkpoint interval, cycles through them from some offset.
SmallWikis == UNION {[1..n -> {ContentResponses[r] : r \in 1..Len(ContentResponses)}] :
                        n \in 0..MaxSmallWiki}
LargeSizes == UNION {{CheckpointEvery * k - 1, CheckpointEvery * k, CheckpointEvery * k + 1} :
                        k \in 1..MaxCheckpoints}
LargeWikis == {[t \in 1..n |-> ContentResponses[((t + o) % Len(ContentResponses)) + 1]] :
                  n \in LargeSizes, o \in 0..MaxOffset}

RunInit ==
    /\ run_wiki \in SmallWikis \cup LargeWikis
    /\ run_pc = "start"
    /\ stopped_at = "none"
    /\ titles = <<>>
    /\ i = 0
    /\ raw_content = None
    /\ scraped_content = <<>>
    /\ tmp_file = NoFile
    /\ out_file = NoFile
    /\ tmp_writes = <<>>
    /\ out_writes = 0
    /\ content_requests = <<>>
    /\ sleeps = 0

RunIdle ==
    /\ run_wiki = <<>>
    /\ run_pc = "idle"
    /\ stopped_at = "none"
    /\ titles = <<>>
    /\ i = 0
    /\ raw_content = None
    /\ scraped_content = <<>>
    /\ tmp_file = NoFile
    /\ out_file = NoFile
    /\ tmp_writes = <<>>
    /\ out_writes = 0
    /\ content_requests = <<>>
    /\ sleeps = 0

\* titles = self.get_all_page_titles(), here with every page listed ...
RunListed ==
    /\ run_pc = "start"
    /\ run_wiki # <<>>
    /\ titles' = [t \in 1..Len(run_wiki) |-> TitleOf(t)]
    /\ run_pc' = "fetch"
    /\ UNCHANGED <<run_wiki, stopped_at, i, raw_content, scraped_content,
                   tmp_file, out_file, tmp_writes, out_writes, content_requests, sleeps>>

\* ... and here with none (an empty wiki, or a listing that failed at once):
\* "No pages found!" and return.
RunNoPages ==
    /\ run_pc = "start"
    /\ titles' = <<>>
    /\ run_pc' = "done"
    /\ UNCHANGED <<run_wiki, stopped_at, i, raw_content, scraped_content,
                   tmp_file, out_file, tmp_writes, out_writes, content_requests, sleeps>>

\* The loop body for titles[i + 1], up to the append.
RunFetch ==
    /\ run_pc = "fetch"
    /\ LET title == titles[i + 1]
           raw   == get_page_content(run_wiki[i + 1])
       IN  /\ content_requests' = Append(content_requests, title)
           /\ raw_content' = raw
           /\ scraped_content' = AppendPage(scraped_content, title, raw)
    /\ run_pc' = "checkpoint"
    /\ UNCHANGED <<run_wiki, stopped_at, titles, i, tmp_file, out_file,
                   tmp_writes, out_writes, sleeps>>

\* No checkpoint is due for this title.
RunCheckpointSkip ==
    /\ run_pc = "checkpoint"
    /\ ~CheckpointDue(i)
    /\ run_pc' = "sleep"
    /\ UNCHANGED <<run_wiki, stopped_at, titles, i, raw_content, scraped_content,
                   tmp_file, out_file, tmp_writes, out_writes, content_requests, sleeps>>

\* open(f"{output_file}.tmp", 'w'): the file is created or truncated.
RunCheckpointOpen ==
    /\ run_pc = "checkpoint"
    /\ CheckpointDue(i)
    /\ tmp_file' = OpenedFile
    /\ run_pc' = "dump"
    /\ UNCHANGED <<run_wiki, stopped_at, titles, i, raw_content, scraped_content,
                   out_file, tmp_writes, out_writes, content_requests, sleeps>>

\* open() raises (OSError): the exception leaves scrape_all_content and main
\* exits with status 1.
RunCheckpointOpenFails ==
    /\ run_pc = "checkpoint"
    /\ CheckpointDue(i)
    /\ run_pc' = "error"
    /\ stopped_at' = run_pc
    /\ UNCHANGED <<run_wiki, titles, i, raw_content, scraped_content,
                   tmp_file, out_file, tmp_writes, out_writes, content_requests, sleeps>>

\* json.dump(scraped_content, f, ...) and the close of the file.
RunCheckpointDump ==
    /\ run_pc = "dump"
    /\ tmp_file' = WrittenFile(scraped_content)
    /\ tmp_writes' = Append(tmp_writes, i + 1)
    /\ run_pc' = "sleep"
    /\ UNCHANGED <<run_wiki, stopped_at, titles, i, raw_content, scraped_content,
                   out_file, out_writes, content_requests, sleeps>>

\* time.sleep(self.delay), and the step to the next title or out of the loop.
RunSleep ==
    /\ run_pc = "sleep"
    /\ sleeps' = sleeps + 1
    /\ i' = NextIndex(i, raw_content)
    /\ run_pc' = AfterSleep(i, Len(titles))
    /\ UNCHANGED <<run_wiki, stopped_at, titles, raw_content, scraped_content,
                   tmp_file, out_file, tmp_writes, out_writes, content_requests>>

\* open(output_file, 'w')
RunFinalOpen ==
    /\ run_pc = "save"
    /\ out_file' = OpenedFile
    /\ out_writes' = out_writes + 1
    /\ run_pc' = "savedump"
    /\ UNCHANGED <<run_wiki, stopped_at, titles, i, raw_content, scraped_content,
                   tmp_file, tmp_writes, content_requests, sleeps>>

RunFinalOpenFails ==
    /\ run_pc = "save"
    /\ run_pc' = "error"
    /\ stopped_at' = run_pc
    /\ UNCHANGED <<run_wiki, titles, i, raw_content, scraped_content,
                   tmp_file, out_file, tmp_writes, out_writes, content_requests, sleeps>>

\* json.dump(scraped_content, f, ...) and the close of the file.
RunFinalDump ==
    /\ run_pc = "savedump"
    /\ out_file' = WrittenFile(scraped_content)
    /\ run_pc' = "cleanup"
    /\ UNCHANGED <<run_wiki, stopped_at, titles, i, raw_content, scraped_content,
                   tmp_file, tmp_writes, out_writes, content_requests, sleeps>>

\* if os.path.exists(tmp): os.remove(tmp)
RunCleanup ==
    /\ run_pc = "cleanup"
    /\ tmp_file' = IF tmp_file.exists THEN NoFile ELSE tmp_file
    /\ run_pc' = "stats"
    /\ UNCHANGED <<run_wiki, stopped_at, titles, i, raw_content, scraped_content,
                   out_file, tmp_writes, out_writes, content_requests, sleeps>>

\* The statistics are printed and scraped_content is returned.
RunReturn ==
    /\ run_pc = "stats"
    /\ run_pc' = "done"
    /\ UNCHANGED <<run_wiki, stopped_at, titles, i, raw_content, scraped_content,
                   tmp_file, out_file, tmp_writes, out_writes, content_requests, sleeps>>

\* The operator interrupts the run (KeyboardInterrupt), wherever it is; main
\* catches it and reports.  An opened file is closed as the with-block is left.
RunInterrupt ==
    /\ run_pc \notin {"idle", "done", "error", "interrupted"}
    /\ stopped_at' = run_pc
    /\ run_pc' = "interrupted"
    /\ UNCHANGED <<run_wiki, titles, i, raw_content, scraped_content,
                   tmp_file, out_file, tmp_writes, out_writes, content_requests, sleeps>>

----------------------------------------------------------------------------
(* convert_wiki.py: convert_json_to_documents                              *)

Num(n) == [type |-> "num", val |-> n]
Obj(fields) == [type |-> "obj", val |-> fields]
\* A key the object does not have.
Absent == [type |-> "absent", val |-> <<>>]
\* The local variable title (exp_title) before its first assignment.
Unbound == [type |-> "unbound", val |-> <<>>]

\* article.get(key, default)
Get(article, key, default) ==
    IF article.val[key] = Absent THEN default ELSE article.val[key]

\* A value as an f-string prints it.
FormatValue(v) ==
    CASE v.type = "str" -> v.val
      [] v.type = "num" -> Digits(v.val)
      [] v.type = "null" -> <<"N", "o", "n", "e">>

\* The text written for an article.
\* (DocumentContentSwapped: the variant that swaps the title and the url.)
DocumentContentSwapped(t, url, word_count, content) ==
    <<"T", "I", "T", "L", "E", ":", " ">> \o FormatValue(url) \o <<"\n">>
    \o <<"U", "R", "L", ":", " ">> \o FormatValue(t) \o <<"\n">>
    \o <<"W", "O", "R", "D", " ", "C", "O", "U", "N", "T", ":", " ">>
    \o FormatValue(word_count) \o <<"\n">>
    \o <<"\n">>
    \o <<"C", "O", "N", "T", "E", "N", "T", ":", "\n">>
    \o FormatValue(content) \o <<"\n">>
DocumentContent(t, url, word_count, content) ==
    <<"T", "I", "T", "L", "E", ":", " ">> \o FormatValue(t) \o <<"\n">>
    \o <<"U", "R", "L", ":", " ">> \o FormatValue(url) \o <<"\n">>
    \o <<"W", "O", "R", "D", " ", "C", "O", "U", "N", "T", ":", " ">>
    \o FormatValue(word_count) \o <<"\n">>
    \o <<"\n">>
    \o <<"C", "O", "N", "T", "E", "N", "T", ":", "\n">>
    \o FormatValue(content) \o <<"\n">>

\* sanitize_filename(title) + '.txt'
FileName(t) == sanitize_filename(t.val) \o <<".", "t", "x", "t">>

\* The try block for one article: whether it raised, whether title was
\* assigned before it did, and the file it wrote if any.
TryResult(raised, bound, t, written, name, text) ==
    [raised |-> raised, bound |-> bound, title |-> t,
     written |-> written, name |-> name, text |-> text]
TryBody(article) ==
    IF article.type # "obj"
    THEN \* article.get raises AttributeError
         TryResult(TRUE, FALSE, Unbound, FALSE, <<>>, <<>>)
    ELSE LET t == Get(article, "title", Str(<<"U", "n", "t", "i", "t", "l", "e", "d">>))
             content == Get(article, "content", Str(<<>>))
             url == Get(article, "url", Str(<<>>))
             word_count == Get(article, "word_count", Num(0))
         IN  IF content.type # "str"
             THEN \* content.strip() raises AttributeError
                  TryResult(TRUE, TRUE, t, FALSE, <<>>, <<>>)
             ELSE IF Strip(content.val) = <<>>
             THEN \* skipped_count += 1; continue
                  TryResult(FALSE, TRUE, t, FALSE, <<>>, <<>>)
             ELSE IF t.type # "str"
             THEN \* re.sub raises TypeError
                  TryResult(TRUE, TRUE, t, FALSE, <<>>, <<>>)
             ELSE TryResult(FALSE, TRUE, t, TRUE, FileName(t),
                            DocumentContent(t, url, word_count, content))

\* The except clause prints title: when title was never assigned, that print
\* raises UnboundLocalError, which leaves the loop and the function.
HandlerRaises(r, bound_title) == r.raised /\ ~r.bound /\ bound_title = Unbound

\* skipped_count after an article: one more unless it was written.
\* (SkippedAfterErrorsOnly: the variant that counts only the errors.)
SkippedAfterErrorsOnly(r, skipped) == IF r.raised THEN skipped + 1 ELSE skipped
SkippedAfter(r, skipped) == IF r.written THEN skipped ELSE skipped + 1

\* open(file_path, 'w') and f.write(document_content): the file of that name
\* is created, or replaced.
WriteFile(dir, name, text) ==
    [n \in DOMAIN dir \cup {name} |-> IF n = name THEN text ELSE dir[n]]

\* Elements of the JSON array handed to the exporter.
Record(t, content, url, word_count) ==
    Obj([title |-> t, content |-> content, url |-> url, word_count |-> word_count])
ArticleRecordOf(t, content) ==
    Record(Str(t), Str(content), Str(UrlOf(t)), Num(Len(SplitWords(content))))
ExportTitles == {<<"a", " ", "b">>, <<"a", "_", "b">>, <<"b", ":">>}
ExportContents == {<<>>, <<" ", "\n">>, <<"x", " ", "y", "\n", "z">>}
ArticleRecords == {ArticleRecordOf(t, c) : t \in ExportTitles, c \in ExportContents}
OtherElements ==
    { Str(<<"x">>),
      Record(Absent, Str(<<"x">>), Absent, Absent),
      Record(Str(<<"a">>), Absent, Absent, Absent),
      Record(Str(<<"a">>), None, Absent, Absent),
      Record(Num(3), Str(<<"x">>), Absent, Absent),
      Record(None, Str(<<" ">>), Absent, Absent) }
ExportInputs == UNION {[1..n -> ArticleRecords \cup OtherElements] : n \in 0..MaxArticles}

ExpInit ==
    /\ wiki_data \in ExportInputs
    /\ exp_pc = "loop"
    /\ idx = 0
    /\ exp_title = Unbound
    /\ converted_count = 0
    /\ skipped_count = 0
    /\ files = <<>>
    /\ exported = <<>>

ExpIdle ==
    /\ wiki_data = <<>>
    /\ exp_pc = "idle"
    /\ idx = 0
    /\ exp_title = Unbound
    /\ converted_count = 0
    /\ skipped_count = 0
    /\ files = <<>>
    /\ exported = <<>>

\* One round of the loop, for wiki_data[idx + 1], that ends in the loop.
ExportArticle ==
    /\ exp_pc = "loop"
    /\ idx < Len(wiki_data)
    /\ LET r == TryBody(wiki_data[idx + 1])
       IN  /\ ~HandlerRaises(r, exp_title)
           /\ exp_title' = IF r.bound THEN r.title ELSE exp_title
           /\ converted_count' = IF r.written THEN converted_count + 1 ELSE converted_count
           /\ skipped_count' = SkippedAfter(r, skipped_count)
           /\ files' = IF r.written THEN WriteFile(files, r.name, r.text) ELSE files
           /\ exported' = IF r.written THEN Append(exported, [index |-> idx + 1, name |-> r.name])
                          ELSE exported
    /\ idx' = idx + 1
    /\ UNCHANGED <<wiki_data, exp_pc>>

\* One round of the loop whose except clause raises in its turn.
ExportHandlerRaises ==
    /\ exp_pc = "loop"
    /\ idx < Len(wiki_data)
    /\ HandlerRaises(TryBody(wiki_data[idx + 1]), exp_title)
    /\ exp_pc' = "raised"
    /\ UNCHANGED <<wiki_data, idx, exp_title, converted_count, skipped_count, files, exported>>

\* The loop is over: the totals are printed and output_path is returned.
ExportReturn ==
    /\ exp_pc = "loop"
    /\ idx = Len(wiki_data)
    /\ exp_pc' = "done"
    /\ UNCHANGED <<wiki_data, idx, exp_title, converted_count, skipped_count, files, exported>>

----------------------------------------------------------------------------
(* Specifications                                                          *)

InitSanitize == SanInit /\ ListIdle /\ RunIdle /\ ExpIdle
NextSanitize == SanitizeCall /\ UNCHANGED <<listVars, runVars, expVars>>
SpecSanitize == InitSanitize /\ [][NextSanitize]_vars

InitList == ListInit /\ SanIdle /\ RunIdle /\ ExpIdle
NextList ==
    \/ ListPage /\ UNCHANGED <<sanVars, runVars, expVars>>
    \/ ListErrorBody /\ UNCHANGED <<sanVars, runVars, expVars>>
    \/ ListFail /\ UNCHANGED <<sanVars, runVars, expVars>>
    \/ ListSleep /\ UNCHANGED <<sanVars, runVars, expVars>>
SpecList == InitList /\ [][NextList]_vars

InitRun == RunInit /\ SanIdle /\ ListIdle /\ ExpIdle
NextRun ==
    \/ RunListed /\ UNCHANGED <<sanVars, listVars, expVars>>
    \/ RunNoPages /\ UNCHANGED <<sanVars, listVars, expVars>>
    \/ RunFetch /\ UNCHANGED <<sanVars, listVars, expVars>>
    \/ RunCheckpointSkip /\ UNCHANGED <<sanVars, listVars, expVars>>
    \/ RunCheckpointOpen /\ UNCHANGED <<sanVars, listVars, expVars>>
    \/ RunCheckpointOpenFails /\ UNCHANGED <<sanVars, listVars, expVars>>
    \/ RunCheckpointDump /\ UNCHANGED <<sanVars, listVars, expVars>>
    \/ RunSleep /\ UNCHANGED <<sanVars, listVars, expVars>>
    \/ RunFinalOpen /\ UNCHANGED <<sanVars, listVars, expVars>>
    \/ RunFinalOpenFails /\ UNCHANGED <<sanVars, listVars, expVars>>
    \/ RunFinalDump /\ UNCHANGED <<sanVars, listVars, expVars>>
    \/ RunCleanup /\ UNCHANGED <<sanVars, listVars, expVars>>
    \/ RunReturn /\ UNCHANGED <<sanVars, listVars, expVars>>
    \/ RunInterrupt /\ UNCHANGED <<sanVars, listVars, expVars>>
SpecRun == InitRun /\ [][NextRun]_vars

InitExport == ExpInit /\ SanIdle /\ ListIdle /\ RunIdle
NextExport ==
    \/ ExportArticle /\ UNCHANGED <<sanVars, listVars, runVars>>
    \/ ExportHandlerRaises /\ UNCHANGED <<sanVars, listVars, runVars>>
    \/ ExportReturn /\ UNCHANGED <<sanVars, listVars, runVars>>
SpecExport == InitExport /\ [][NextExport]_vars

----------------------------------------------------------------------------
(* Properties                                                              *)

\* ---- get_all_page_titles ----

ResponseTitles(k) == list_responses[k].titles
TitlesOfResponses(n) ==
    IF n = 0 THEN <<>> ELSE Concat([k \in 1..n |-> ResponseTitles(k)])
ListAllDecoded == \A k \in 1..Len(list_responses) : list_responses[k].kind = "ok"

\* C4: while every listing response is a successful one, the titles collected
\* are the concatenation of the pages' titles in server order, without a
\* duplicate; the first request carries no token and every later one the
\* token of the response before it; no page is requested twice; the loop goes
\* on only after a response with a token and stops after the first one
\* without, and then holds every title of the wiki exactly once.
PaginationFollowsTokens ==
    ListAllDecoded =>
        /\ all_titles = TitlesOfResponses(Len(list_responses))
        /\ \A j, k \in 1..Len(all_titles) : j # k => all_titles[j] # all_titles[k]
        /\ \A k \in 1..Len(list_requests) :
               list_requests[k].apcontinue =
                   IF k = 1 THEN None ELSE list_responses[k - 1].cont
        /\ \A j, k \in 1..Len(list_requests) :
               j # k => list_requests[j].apcontinue # list_requests[k].apcontinue
        /\ \A k \in 1..(Len(list_responses) - 1) : list_responses[k].cont # None
        /\ (list_responses # <<>> /\ list_responses[Len(list_responses)].cont = None)
               => list_pc = "returned"
        /\ list_pc = "returned" =>
               /\ list_responses[Len(list_responses)].cont = None
               /\ all_titles = wiki_titles
               /\ Len(list_requests) = Len(list_responses)

PaginationWitness ==
    /\ list_pc = "returned"
    /\ ListAllDecoded
    /\ Len(list_requests) >= 3
    /\ Len(all_titles) >= 4

\* C5: a listing request that fails is the last one issued; the function then
\* returns normally, with exactly the titles of the pages decoded before the
\* failure, in order.
ListingFailureReturnsPartial ==
    \A k \in 1..Len(list_responses) :
        list_responses[k].kind \in RaisingKinds =>
            /\ k = Len(list_responses)
            /\ Len(list_requests) = k
            /\ list_pc = "returned"
            /\ all_titles = TitlesOfResponses(k - 1)

ListingFailureWitness ==
    /\ list_pc = "returned"
    /\ Len(list_responses) >= 3
    /\ list_responses[Len(list_responses)].kind \in RaisingKinds
    /\ all_titles # <<>>
    /\ Len(all_titles) < Len(wiki_titles)

\* ---- scrape_all_content ----

\* The number of titles whose loop body has run up to the append.
Processed == Len(content_requests)

\* The records the first p titles give rise to: for each title, in order, the
\* record the loop body appends for it, if it appends one.
RecordsOfTitle(t) == AppendPage(<<>>, titles[t], get_page_content(run_wiki[t]))
RecordsOfFirst(p) ==
    LET kept == SelectSeq([t \in 1..p |-> t], LAMBDA t : RecordsOfTitle(t) # <<>>)
    IN  [j \in 1..Len(kept) |-> RecordsOfTitle(kept[j])[1]]

\* Where the run is, or was when it was interrupted or failed.
RunAt == IF run_pc \in {"interrupted", "error"} THEN stopped_at ELSE run_pc

CheckpointsAtMultiples ==
    /\ \A k \in 1..Len(tmp_writes) : tmp_writes[k] = CheckpointEvery * k
    /\ Len(tmp_writes) =
           IF RunAt \in {"checkpoint", "dump"} /\ Processed % CheckpointEvery = 0
           THEN (Processed \div CheckpointEvery) - 1
           ELSE Processed \div CheckpointEvery
    /\ (tmp_file.exists /\ tmp_file.complete) =>
           tmp_file.data = RecordsOfFirst(CheckpointEvery * Len(tmp_writes))

\* C6 as stated, in the sense most favourable to it (the run is interrupted
\* inside the loop and a checkpoint has been taken before): the checkpoint
\* file is written exactly when the number of processed titles reaches a
\* multiple of 100, each write replacing it with the whole record sequence so
\* far; and a run interrupted after that leaves the checkpoint file in place,
\* holding the records of the first 100*k titles, k the number of checkpoints
\* taken.
CheckpointSurvivesAnyInterrupt ==
    /\ CheckpointsAtMultiples
    /\ (run_pc = "interrupted" /\ tmp_writes # <<>>
            /\ stopped_at \in {"fetch", "checkpoint", "dump", "sleep"}) =>
           /\ tmp_file.exists
           /\ tmp_file.complete
           /\ tmp_file.data = RecordsOfFirst(CheckpointEvery * Len(tmp_writes))

\* C6 as amended: the same, for a run interrupted after at least one
\* checkpoint write has completed, outside a checkpoint write and before the
\* final clean-up.  Interrupted during a checkpoint write, the run leaves the
\* file truncated or partly written; interrupted after the clean-up, it
\* leaves none.
CheckpointSurvivesInterrupt ==
    /\ CheckpointsAtMultiples
    /\ (run_pc = "interrupted" /\ tmp_writes # <<>>
            /\ stopped_at \notin {"dump", "stats"}) =>
           /\ tmp_file.exists
           /\ tmp_file.complete
           /\ tmp_file.data = RecordsOfFirst(CheckpointEvery * Len(tmp_writes))
    /\ (run_pc = "interrupted" /\ stopped_at = "dump") =>
           tmp_file.exists /\ ~tmp_file.complete
    /\ (run_pc = "interrupted" /\ stopped_at = "stats") => ~tmp_file.exists

CheckpointWitness ==
    /\ run_pc = "interrupted"
    /\ stopped_at = "sleep"
    /\ Len(tmp_writes) = 2
    /\ tmp_file.complete
    /\ tmp_file.data # <<>>
    /\ Len(tmp_file.data) < Len(scraped_content)

HasContent(resp) ==
    resp.kind = "text" /\ \E k \in 1..Len(resp.text) : resp.text[k] \notin Whitespace

\* c is r without its leading and trailing whitespace, and is not empty.
IsTrimOf(c, r) ==
    \E lo, hi \in 1..Len(r) :
        /\ lo <= hi
        /\ c = SubSeq(r, lo, hi)
        /\ r[lo] \notin Whitespace
        /\ r[hi] \notin Whitespace
        /\ \A k \in 1..Len(r) : (k < lo \/ k > hi) => r[k] \in Whitespace

\* The number of maximal runs of non-whitespace characters of c.
TokenCount(c) ==
    Cardinality({k \in 1..Len(c) :
                    c[k] \notin Whitespace /\ (k = 1 \/ c[k - 1] \in Whitespace)})

\* C9: at every point of the run, scraped_content holds, in title order, one
\* record for each processed title whose fetch returned content that is not
\* blank, and none for the others; each record's content is its raw_content
\* trimmed and is not empty, and its word_count is the number of
\* whitespace-separated tokens of content.
ScrapedRecordsMatchFetches ==
    LET kept == SelectSeq([t \in 1..Processed |-> t], LAMBDA t : HasContent(run_wiki[t]))
    IN  /\ Len(scraped_content) = Len(kept)
        /\ \A j \in 1..Len(scraped_content) :
               LET rec == scraped_content[j]
               IN  /\ rec.title = titles[kept[j]]
                   /\ rec.raw_content = run_wiki[kept[j]].text
                   /\ IsTrimOf(rec.content, rec.raw_content)
                   /\ rec.content # <<>>
                   /\ rec.word_count = TokenCount(rec.content)

ScrapedRecordsWitness ==
    /\ Processed >= 3
    /\ Len(scraped_content) >= 2
    /\ Len(scraped_content) < Processed
    /\ \E j \in 1..Len(scraped_content) :
           /\ scraped_content[j].content # scraped_content[j].raw_content
           /\ scraped_content[j].word_count >= 2

\* C10: the content requests issued so far are the first titles of the list,
\* each once and in list order, whatever the requests returned; the delay has
\* been applied once for every title before the current one whenever a
\* request is about to be issued, and once for every title when the loop is
\* over.
OneRequestPerTitleThenDelay ==
    /\ Processed <= Len(titles)
    /\ content_requests = SubSeq(titles, 1, Processed)
    /\ sleeps <= Processed
    /\ Processed <= sleeps + 1
    /\ RunAt = "fetch" => sleeps = Processed
    /\ RunAt \in {"save", "savedump", "cleanup", "stats"} \/ (RunAt = "done" /\ titles # <<>>)
           => (Processed = Len(titles) /\ sleeps = Len(titles))

OneRequestWitness ==
    /\ run_pc = "done"
    /\ Len(titles) >= 2
    /\ Processed = Len(titles)
    /\ \E t \in 1..Len(titles) : run_wiki[t].kind \in RaisingKinds
    /\ \E t \in 1..Len(titles) : run_wiki[t].kind = "text"

\* ---- convert_json_to_documents ----

\* The article's content is a string without a character that is not
\* whitespace (a missing content counts as the empty string).
BlankContent(article) ==
    /\ article.type = "obj"
    /\ \/ article.val.content = Absent
       \/ /\ article.val.content.type = "str"
          /\ \A k \in 1..Len(article.val.content.val) :
                 article.val.content.val[k] \in Whitespace

\* The article's processing raises: it is no object, its content is no
\* string, or its content is not blank and its title is no string.
RaisesError(article) ==
    \/ article.type # "obj"
    \/ article.val.content \notin {Absent} /\ article.val.content.type # "str"
    \/ /\ ~BlankContent(article)
       /\ article.val.title # Absent
       /\ article.val.title.type # "str"

\* C1: an article whose processing raises is skipped and counted as skipped,
\* and the loop goes on to the later articles: no article's error ends the
\* export, whatever its position in the list.
ArticleErrorNeverAborts ==
    /\ exp_pc # "raised"
    /\ skipped_count >= Cardinality({k \in 1..idx : RaisesError(wiki_data[k])})
    /\ \A k \in 1..idx :
           RaisesError(wiki_data[k]) => \A e \in 1..Len(exported) : exported[e].index # k
    /\ exp_pc = "done" => idx = Len(wiki_data)

\* C2: a record whose content is empty or all whitespace is never written and
\* is counted as skipped, and when the loop is over converted + skipped is the
\* number of records.
BlankSkippedAndCountsAddUp ==
    /\ \A k \in 1..idx :
           BlankContent(wiki_data[k]) => \A e \in 1..Len(exported) : exported[e].index # k
    /\ skipped_count >=
           Cardinality({k \in 1..idx : BlankContent(wiki_data[k]) \/ RaisesError(wiki_data[k])})
    /\ converted_count = Len(exported)
    /\ exp_pc = "done" => converted_count + skipped_count = Len(wiki_data)

BlankSkippedWitness ==
    /\ exp_pc = "done"
    /\ Len(wiki_data) >= 2
    /\ converted_count >= 1
    /\ \E k \in 1..Len(wiki_data) :
           /\ BlankContent(wiki_data[k])
           /\ wiki_data[k].val.content # Absent
           /\ wiki_data[k].val.content.val # <<>>

\* Reading an exported document back: the title, url and word-count lines,
\* the blank line, the CONTENT: line, and the content up to the final newline.
RECURSIVE ParseNat(_)
ParseNat(digits) ==
    IF digits = <<>> THEN 0
    ELSE 10 * ParseNat(SubSeq(digits, 1, Len(digits) - 1))
         + (CHOOSE d \in 0..9 : DigitChars[d + 1] = digits[Len(digits)])
ParseDocument(text) ==
    LET newlines == {k \in 1..Len(text) : text[k] = "\n"}
        n1 == MinOf(newlines)
        n2 == MinOf(newlines \ {n1})
        n3 == MinOf(newlines \ {n1, n2})
    IN  [header_ok |->
             /\ SubSeq(text, 1, 7) = <<"T", "I", "T", "L", "E", ":", " ">>
             /\ SubSeq(text, n1 + 1, n1 + 5) = <<"U", "R", "L", ":", " ">>
             /\ SubSeq(text, n2 + 1, n2 + 12) =
                    <<"W", "O", "R", "D", " ", "C", "O", "U", "N", "T", ":", " ">>
             /\ SubSeq(text, n3 + 1, n3 + 10) =
                    <<"\n", "C", "O", "N", "T", "E", "N", "T", ":", "\n">>
             /\ text[Len(text)] = "\n",
         title |-> SubSeq(text, 8, n1 - 1),
         url |-> SubSeq(text, n1 + 6, n2 - 1),
         word_count |-> ParseNat(SubSeq(text, n2 + 13, n3 - 1)),
         content |-> SubSeq(text, n3 + 11, Len(text) - 1)]

\* The export of a list of ArticleRecords is over.
ExportedArticleRecords ==
    /\ exp_pc = "done"
    /\ \A k \in 1..Len(wiki_data) : wiki_data[k] \in ArticleRecords
NonBlank == {k \in 1..Len(wiki_data) : ~BlankContent(wiki_data[k])}
TargetFile(k) == FileName(wiki_data[k].val.title)

OneDocumentPerRecord ==
    /\ converted_count = Cardinality(NonBlank)
    /\ Cardinality(DOMAIN files) = converted_count
    /\ \A k \in NonBlank :
           /\ TargetFile(k) \in DOMAIN files
           /\ LET doc == ParseDocument(files[TargetFile(k)])
                  rec == wiki_data[k].val
              IN  /\ doc.header_ok
                  /\ doc.title = rec.title.val
                  /\ doc.url = rec.url.val
                  /\ doc.word_count = rec.word_count.val
                  /\ doc.content = rec.content.val

\* C8 as stated: after the export of any list of ArticleRecords, the records
\* with content that is not blank are the converted ones, the directory holds
\* as many files as records were converted, and each such record's title,
\* url, word count and content are those read back from <sanitized-title>.txt.
ExportYieldsOneDocumentEach == ExportedArticleRecords => OneDocumentPerRecord

\* C8 as amended: the same, for a list in which no two records with content
\* that is not blank have titles that sanitize to the same file name.
ExportYieldsOneDocumentEachDistinct ==
    (ExportedArticleRecords
        /\ \A j, k \in NonBlank : j # k => TargetFile(j) # TargetFile(k))
    => OneDocumentPerRecord

ExportDocumentsWitness ==
    /\ ExportedArticleRecords
    /\ Cardinality(NonBlank) >= 2
    /\ Cardinality(NonBlank) < Len(wiki_data)
    /\ \A j, k \in NonBlank : j # k => TargetFile(j) # TargetFile(k)
    /\ \E k \in NonBlank : wiki_data[k].val.title.val # sanitize_filename(wiki_data[k].val.title.val)

\* ---- sanitize_filename ----

\* C3: every result of sanitize_filename contains none of < > : " / \ | ? *
\* and no whitespace, neither starts nor ends with an underscore or a dot,
\* and is at most 200 characters long.
SanitizedIsClean ==
    san_pc = "returned" =>
        /\ \A k \in 1..Len(san_filename) :
               san_filename[k] \notin IllegalChars \cup Whitespace
        /\ san_filename # <<>> =>
               /\ san_filename[1] \notin {"_", "."}
               /\ san_filename[Len(san_filename)] \notin {"_", "."}
        /\ Len(san_filename) <= FilenameLimit

====
